---- MODULE Spec2Model ----
(***************************************************************************)
(* A model of skyhook (src/skyhook.py): a Flask endpoint that receives     *)
(* GitHub web hooks, checks their origin against the networks GitHub       *)
(* publishes, and hands watch/fork events to one Worker thread that posts  *)
(* a formatted message to Slack.                                           *)
(*                                                                         *)
(* Every request is served by its own handler thread (requests 1 ..        *)
(* MaxRequests); the Worker thread runs beside them.  Addresses are        *)
(* AddrBits-bit integers and a CIDR is a pair <<ip, prefixlen>>.           *)
(* A formatted message is the sequence of its parts (literal text and      *)
(* substituted values, numbers rendered in decimal).                       *)
(***************************************************************************)
EXTENDS Integers, Sequences, FiniteSets, TLC

\* ---------------------------------------------------------------- bounds

\* Number of requests the server receives in a run.
MaxRequests == 2

\* Width of an address in bits (IPv4 has 32).
AddrBits == 3

\* Number of ranges in a stored allowlist, when the origin check is checked
\* on its own.
MaxNetworks == 2

\* ------------------------------------------------------- configuration

Lit(s) == [lit |-> s]
Fld(k, a) == [key |-> k, attr |-> a]

\* '<{user[url]}|{user[name]}> starred <{repo[url]}|{repo[name]}> * {stars}'
STAR_FORMAT ==
    << Lit("<"), Fld("user", "url"), Lit("|"), Fld("user", "name"),
       Lit("> starred <"), Fld("repo", "url"), Lit("|"), Fld("repo", "name"),
       Lit("> * "), Fld("stars", "") >>

\* '<{user[url]}|{user[name]}> forked <{repo[url]}|{repo[name]}> :goldfork: {forks}'
FORK_FORMAT ==
    << Lit("<"), Fld("user", "url"), Lit("|"), Fld("user", "name"),
       Lit("> forked <"), Fld("repo", "url"), Lit("|"), Fld("repo", "name"),
       Lit("> :goldfork: "), Fld("forks", "") >>

\* The registry a deployment configures (REPOS is {} until skyhook.cfg fills
\* it).  acme/widgets uses the default templates; acme/gadgets has its own
\* star template and a fork template naming a field fork jobs do not pass.
REPOS ==
    [n \in {"acme/widgets", "acme/gadgets"} |->
        IF n = "acme/widgets"
        THEN [channel |-> "#releases"]
        ELSE [channel |-> "#gadgets",
              STAR_FORMAT |-> << Fld("user", "name"), Lit(" likes "),
                                 Fld("repo", "name"), Lit(": "),
                                 Fld("stars", "") >>,
              FORK_FORMAT |-> << Fld("user", "name"), Lit(" forked, stars: "),
                                 Fld("stars", "") >>]]

\* ------------------------------------------------------------- inputs

Pow2(n) == IF n <= 0 THEN 1 ELSE 2 ^ n

Has(d, k) == k \in DOMAIN d

\* netaddr.IPNetwork(cidr): the network of a CIDR <<ip, prefixlen>>; a CIDR
\* with an address or a prefix length out of range does not parse.
ValidCidr(cidr) ==
    /\ cidr[1] \in 0 .. Pow2(AddrBits) - 1
    /\ cidr[2] \in 0 .. AddrBits

IPNetwork(cidr) == [ip |-> cidr[1], prefixlen |-> cidr[2]]

NetSize(network) == Pow2(AddrBits - network.prefixlen)
NetFirst(network) == (network.ip \div NetSize(network)) * NetSize(network)
NetLast(network) == NetFirst(network) + NetSize(network) - 1

\* `first <= addr < last` in place of the containment test.
InNetworkExclusive(addr, network) ==
    NetFirst(network) <= addr /\ addr < NetLast(network)

\* request.remote_addr in network
InNetwork(addr, network) ==
    NetFirst(network) <= addr /\ addr <= NetLast(network)

\* What https://api.github.com/meta answers: the request raises, the JSON
\* has no 'hooks' key, or it lists CIDRs (the last one here unparsable).
GoodCidr == <<4, 2>>
BadCidr == <<0, AddrBits + 1>>

\* Source addresses of requests: the last address of the published network
\* and the address just below its first one.
InsideAddr == NetLast(IPNetwork(GoodCidr))
OutsideAddr == NetFirst(IPNetwork(GoodCidr)) - 1

MetaResponses ==
    { [raised |-> TRUE, json |-> <<>>],
      [raised |-> FALSE, json |-> <<>>],
      [raised |-> FALSE, json |-> [hooks |-> << GoodCidr >>]],
      [raised |-> FALSE, json |-> [hooks |-> << GoodCidr, BadCidr >>]] }

Payload(name) ==
    [repository |-> [full_name |-> name, html_url |-> "repo_url",
                     stargazers_count |-> 7, forks |-> 42],
     sender |-> [login |-> "alice", html_url |-> "alice_url"]]

\* A payload without repository.forks.
PayloadNoForks(name) ==
    [repository |-> [full_name |-> name, html_url |-> "repo_url",
                     stargazers_count |-> 7],
     sender |-> [login |-> "alice", html_url |-> "alice_url"]]

\* A payload without repository.full_name.
PayloadNoName ==
    [repository |-> [html_url |-> "repo_url", stargazers_count |-> 7,
                     forks |-> 42],
     sender |-> [login |-> "alice", html_url |-> "alice_url"]]

EventHeader == "X-GitHub-Event"

Request(addr, hdrs, payload) ==
    [remote_addr |-> addr, headers |-> hdrs, json |-> payload]

WithEvent(e) == (EventHeader :> e)

Requests ==
    { Request(OutsideAddr, <<>>, <<>>),
      Request(OutsideAddr, WithEvent("watch"), Payload("acme/widgets")),
      Request(InsideAddr, <<>>, <<>>),
      Request(InsideAddr, WithEvent(""), <<>>),
      Request(InsideAddr, WithEvent("ping"), <<>>),
      Request(InsideAddr, WithEvent("push"), Payload("acme/widgets")),
      Request(InsideAddr, WithEvent("watch"), Payload("acme/widgets")),
      Request(InsideAddr, WithEvent("fork"), Payload("acme/widgets")),
      Request(InsideAddr, WithEvent("watch"), Payload("acme/gadgets")),
      Request(InsideAddr, WithEvent("fork"), Payload("acme/gadgets")),
      Request(InsideAddr, WithEvent("watch"), Payload("evil/repo")),
      Request(InsideAddr, WithEvent("fork"), Payload("evil/repo")),
      Request(InsideAddr, WithEvent("watch"), PayloadNoName),
      Request(InsideAddr, WithEvent("fork"), PayloadNoForks("acme/widgets")) }

NoRequest == Request(0, <<>>, <<>>)
NoResponse == [status |-> 0, body |-> <<>>]
NoJob == [event_type |-> "", payload |-> <<>>, seq |-> 0]
NoCall == [channel |-> "", text |-> <<>>]

\* ---------------------------------------------------------------- state

VARIABLES
    got_first_request,  \* Flask: the before_first_request functions have run
    app_attrs,          \* attributes set on app: "worker", "slack", "github_networks"
    github_networks,    \* app.github_networks
    workers_started,    \* number of Worker threads created and started
    networks_loaded,    \* app_setup's loop over meta['hooks'] ran to its end
    queue,              \* app.worker.queue
    nsent,              \* number of jobs put on the queue so far
    worker_pc,          \* "unstarted", "waiting", "handling", "sending", "stopped"
    cur,                \* the job Worker.run took from the queue
    call,               \* the post_message call in progress
    nstarted,           \* number of jobs taken from the queue so far
    last_failed,        \* seq of the last job whose handling raised (0: none)
    notified,           \* seqs of the jobs post_message was called for, in order
    nreq,               \* number of requests received so far
    pc,                 \* per request: "new", "setup", "hook", "sent", "done",
                        \* or "failed" when app_setup raised under it
    req,                \* per request: the request
    resp,               \* per request: the response returned
    job                 \* per request: seq of the job it enqueued (0: none)

vars == << got_first_request, app_attrs, github_networks, workers_started,
           networks_loaded,
           queue, nsent, worker_pc, cur, call, nstarted, last_failed,
           notified, nreq, pc, req, resp, job >>

appVars == << got_first_request, app_attrs, github_networks, workers_started,
             networks_loaded >>
workerVars == << worker_pc, cur, call, nstarted, last_failed, notified >>
requestVars == << nreq, pc, req, resp, job >>

Handlers == 1 .. MaxRequests

Init ==
    /\ got_first_request = FALSE
    /\ app_attrs = {}
    /\ github_networks = <<>>
    /\ workers_started = 0
    /\ networks_loaded = FALSE
    /\ queue = <<>>
    /\ nsent = 0
    /\ worker_pc = "unstarted"
    /\ cur = NoJob
    /\ call = NoCall
    /\ nstarted = 0
    /\ last_failed = 0
    /\ notified = <<>>
    /\ nreq = 0
    /\ pc = [h \in Handlers |-> "new"]
    /\ req = [h \in Handlers |-> NoRequest]
    /\ resp = [h \in Handlers |-> NoResponse]
    /\ job = [h \in Handlers |-> 0]

\* ------------------------------------------------------------ app_setup

RECURSIVE ParsedNetworks(_)
\* The networks the loop over meta['hooks'] appends before it ends or the
\* first CIDR that does not parse raises.
ParsedNetworks(cidrs) ==
    IF cidrs = <<>> \/ ~ValidCidr(Head(cidrs))
    THEN <<>>
    ELSE <<IPNetwork(Head(cidrs))>> \o ParsedNetworks(Tail(cidrs))

AllParse(cidrs) == \A i \in 1 .. Len(cidrs) : ValidCidr(cidrs[i])

\* hasattr that does not see app.worker.
hasattrNotWorker(attrs, name) == name # "worker" /\ name \in attrs

\* hasattr that sees app.worker only.
hasattrWorkerOnly(attrs, name) == name = "worker" /\ name \in attrs

\* hasattr(app, name)
hasattr(attrs, name) == name \in attrs

\* app_setup() run with the attributes `attrs` set and the metadata
\* endpoint answering `meta`: the attributes and networks it leaves, the
\* number of Worker threads it starts, whether it raised, and whether this
\* run loaded the networks to the end (reached the 'Loaded GitHub networks'
\* log line).
app_setup(attrs, networks, meta) ==
    LET started == IF hasattr(attrs, "worker") THEN 0 ELSE 1
        attrs1 == attrs \cup {"worker", "slack"}
    IN  IF hasattr(attrs, "github_networks")
        THEN [raised |-> FALSE, attrs |-> attrs1, networks |-> networks,
              started |-> started, loaded |-> FALSE]
        ELSE IF meta.raised
        THEN [raised |-> TRUE, attrs |-> attrs1, networks |-> networks,
              started |-> started, loaded |-> FALSE]
        ELSE IF ~Has(meta.json, "hooks")
        THEN [raised |-> TRUE, attrs |-> attrs1 \cup {"github_networks"},
              networks |-> <<>>, started |-> started, loaded |-> FALSE]
        ELSE [raised |-> ~AllParse(meta.json.hooks),
              attrs |-> attrs1 \cup {"github_networks"},
              networks |-> ParsedNetworks(meta.json.hooks),
              started |-> started,
              loaded |-> AllParse(meta.json.hooks)]

\* ----------------------------------------------------------------- hook

jsonify(code, fields) == [status |-> code, body |-> fields]

\* What Flask answers when the view or a before_first_request function raises.
InternalServerError == jsonify(500, [error |-> "Internal Server Error"])

Return(response) == [kind |-> "return", response |-> response,
                     event_type |-> "", payload |-> <<>>]
Send(event_type, payload) == [kind |-> "send", response |-> NoResponse,
                              event_type |-> event_type, payload |-> payload]
Raise == [kind |-> "raise", response |-> NoResponse,
          event_type |-> "", payload |-> <<>>]

\* An origin check whose loop breaks before it looks at any network.
IsGitHubAlways(remote_addr, networks) == TRUE

\* The for/else over app.github_networks: some network holds the address.
IsGitHub(remote_addr, networks) ==
    \E i \in 1 .. Len(networks) : InNetwork(remote_addr, networks[i])

\* `event_type is None` in place of `not event_type`.
NoEventTypeAbsentOnly(headers) == ~Has(headers, EventHeader)

\* `not request.headers.get('X-GitHub-Event')`: absent or empty.
NoEventType(headers) ==
    ~Has(headers, EventHeader) \/ headers[EventHeader] = ""

\* payload['repository']['full_name'] can be read.
HasFullName(payload) ==
    Has(payload, "repository") /\ Has(payload.repository, "full_name")

\* A registry check that lets every repository through.
RepoAllowedAny(repo) == TRUE

\* A registry check that only asks for a non-empty name.
RepoAllowedAnyNamed(repo) == repo # ""

\* repo not in app.config['REPOS'] decides "repo not allowed".
RepoAllowed(repo) == repo \in DOMAIN REPOS

\* The watch/fork branches answering without calling app.worker.send.
AcceptWithoutSend(event_type, payload) ==
    IF ~HasFullName(payload)
    THEN Raise
    ELSE IF ~RepoAllowed(payload.repository.full_name)
    THEN Return(jsonify(403, [status |-> "repo not allowed",
                              repo |-> payload.repository.full_name]))
    ELSE Return(jsonify(202, [status |-> "handled"]))

\* The watch/fork branches calling app.worker.send before they read the
\* repository name.
AcceptSendFirst(event_type, payload) ==
    IF ~HasFullName(payload)
    THEN Send(event_type, payload)
    ELSE IF ~RepoAllowed(payload.repository.full_name)
    THEN Return(jsonify(403, [status |-> "repo not allowed",
                              repo |-> payload.repository.full_name]))
    ELSE Send(event_type, payload)

\* The watch and fork branches of hook().
Accept(event_type, payload) ==
    IF ~HasFullName(payload)
    THEN Raise
    ELSE IF ~RepoAllowed(payload.repository.full_name)
    THEN Return(jsonify(403, [status |-> "repo not allowed",
                              repo |-> payload.repository.full_name]))
    ELSE Send(event_type, payload)

\* The final else answering 404 in place of 501.
UnhandledNotFound(event_type) ==
    Return(jsonify(404, [status |-> "unhandled event", event |-> event_type]))

\* The final else of hook(): an event type it does not handle.
Unhandled(event_type) ==
    Return(jsonify(501, [status |-> "unhandled event", event |-> event_type]))

\* A dispatch without the ping branch.
DispatchNoPing(request) ==
    IF NoEventType(request.headers)
    THEN Return(jsonify(403, [status |-> "not a hook"]))
    ELSE LET event_type == request.headers[EventHeader]
         IN  IF event_type = "watch"
             THEN Accept("watch", request.json)
             ELSE IF event_type = "fork"
             THEN Accept("fork", request.json)
             ELSE Unhandled(event_type)

\* Dispatch on the event type, once the origin is accepted.
Dispatch(request) ==
    IF NoEventType(request.headers)
    THEN Return(jsonify(403, [status |-> "not a hook"]))
    ELSE LET event_type == request.headers[EventHeader]
         IN  IF event_type = "ping"
             THEN Return(jsonify(200, [status |-> "pong"]))
             ELSE IF event_type = "watch"
             THEN Accept("watch", request.json)
             ELSE IF event_type = "fork"
             THEN Accept("fork", request.json)
             ELSE Unhandled(event_type)

\* A hook() that answers 503 once a job has failed in the worker.
hookReportsWorker(request, networks) ==
    IF last_failed > 0
    THEN Return(jsonify(503, [status |-> "worker failed"]))
    ELSE IF ~IsGitHub(request.remote_addr, networks)
    THEN Return(jsonify(403, [status |-> "you != GitHub"]))
    ELSE Dispatch(request)

\* hook() up to its first return, raise or app.worker.send.
hook(request, networks) ==
    IF ~IsGitHub(request.remote_addr, networks)
    THEN Return(jsonify(403, [status |-> "you != GitHub"]))
    ELSE Dispatch(request)

\* ---------------------------------------------------------------- Worker

\* str.format(**kwargs) over a template: a field whose key is not passed, or
\* whose attribute is not in the mapping passed, raises.
IsMapping(key) == key \in {"user", "repo"}

Resolves(tok, kwargs) ==
    \/ Has(tok, "lit")
    \/ /\ Has(kwargs, tok.key)
       /\ IF tok.attr = "" THEN TRUE
          ELSE IsMapping(tok.key) /\ Has(kwargs[tok.key], tok.attr)

Rendered(tok, kwargs) ==
    IF Has(tok, "lit") THEN tok.lit
    ELSE IF tok.attr # "" THEN kwargs[tok.key][tok.attr]
    ELSE IF IsMapping(tok.key) THEN "<mapping>"
    ELSE ToString(kwargs[tok.key])

format(template, kwargs) ==
    IF \A i \in 1 .. Len(template) : Resolves(template[i], kwargs)
    THEN [raised |-> FALSE,
          text |-> [i \in 1 .. Len(template) |-> Rendered(template[i], kwargs)]]
    ELSE [raised |-> TRUE, text |-> <<>>]

Post(channel, text) == [kind |-> "post", channel |-> channel, text |-> text]
Raises == [kind |-> "raise", channel |-> "", text |-> <<>>]
Nothing == [kind |-> "none", channel |-> "", text |-> <<>>]

\* slack_notify_star / slack_notify_fork: format, then post_message.
slack_notify(channel, template, kwargs) ==
    LET m == format(template, kwargs)
    IN  IF m.raised THEN Raises ELSE Post(channel, m.text)

\* dict.get that ignores the repository's own entry.
DictGetDefault(d, key, default) == default

\* dict.get(key, default)
DictGet(d, key, default) == IF Has(d, key) THEN d[key] ELSE default

\* The payload fields Worker.handle reads for every job.
HasCommonFields(payload) ==
    /\ Has(payload, "repository") /\ Has(payload, "sender")
    /\ Has(payload.sender, "login") /\ Has(payload.sender, "html_url")
    /\ Has(payload.repository, "full_name")
    /\ Has(payload.repository, "html_url")

UserOf(payload) ==
    [name |-> payload.sender.login, url |-> payload.sender.html_url]
RepoOf(payload) ==
    [name |-> payload.repository.full_name,
     url |-> payload.repository.html_url]

\* The keyword arguments handle passes for a watch and for a fork job.
StarKwargs(payload) ==
    [user |-> UserOf(payload), repo |-> RepoOf(payload),
     stars |-> payload.repository.stargazers_count]

ForkKwargs(payload) ==
    [user |-> UserOf(payload), repo |-> RepoOf(payload),
     forks |-> payload.repository.forks]

\* Worker.handle up to the post_message call: the call it makes, or that it
\* raised before making one.
handle(event_type, payload) ==
    IF event_type \notin {"watch", "fork"}
    THEN Nothing
    ELSE IF ~HasFullName(payload)
            \/ ~Has(REPOS, payload.repository.full_name)
    THEN Raises
    ELSE LET repo == REPOS[payload.repository.full_name]
         IN  IF ~Has(repo, "channel") \/ ~HasCommonFields(payload)
             THEN Raises
             ELSE IF event_type = "watch"
             THEN IF ~Has(payload.repository, "stargazers_count")
                  THEN Raises
                  ELSE slack_notify(
                         repo.channel,
                         DictGet(repo, "STAR_FORMAT", STAR_FORMAT),
                         StarKwargs(payload))
             ELSE IF ~Has(payload.repository, "forks")
                  THEN Raises
                  ELSE slack_notify(
                         repo.channel,
                         DictGet(repo, "FORK_FORMAT", FORK_FORMAT),
                         ForkKwargs(payload))

\* queue.Queue() is built without a maxsize: 0, a queue of any length.
maxsize == 0

\* A queue that is full once it holds one job (queue.Queue(1)).
QueueFullAtOne(q) == Len(q) >= 1

\* Queue.put blocks while the queue is full; a queue with maxsize 0 never is.
QueueFull(q) == maxsize > 0 /\ Len(q) >= maxsize

\* A put that enqueues the item twice.
queue_put_twice(q, item) == Append(Append(q, item), item)

\* queue.Queue: put appends, get takes the oldest item.
queue_put(q, item) == Append(q, item)

\* A get that hands out the oldest item and leaves it in the queue.
queue_get_peek(q) == [item |-> Head(q), rest |-> q]

\* A queue that hands out the newest item first.
queue_get_lifo(q) == [item |-> q[Len(q)], rest |-> SubSeq(q, 1, Len(q) - 1)]

queue_get(q) == [item |-> Head(q), rest |-> Tail(q)]

\* An except clause that catches nothing: the first error ends the thread.
RunCatchesNothing(exc) == FALSE

\* `except KeyError:` in place of the bare except.
RunCatchesKeyError(exc) == exc = "KeyError"

\* The bare `except:` of Worker.run catches whatever handle raises: an
\* error of handle's own lookups and formatting ("KeyError") or one of the
\* Slack client ("SlackError").
RunCatches(exc) == TRUE

\* -------------------------------------------------------------- actions

\* A request arrives and Flask gives it a handler; before the first request
\* has been served the handler runs the before_first_request functions.
Receive(h, r) ==
    /\ pc[h] = "new"
    /\ nreq = h - 1
    /\ nreq' = h
    /\ req' = [req EXCEPT ![h] = r]
    /\ pc' = [pc EXCEPT ![h] = IF got_first_request THEN "hook" ELSE "setup"]
    /\ UNCHANGED << appVars, queue, nsent, workerVars, resp, job >>

\* Under Flask's lock: app_setup() unless another handler has completed it.
\* When it raises the request is answered 500 and a later request runs it
\* again.
AppSetup(h, meta) ==
    /\ pc[h] = "setup"
    /\ IF got_first_request
       THEN /\ pc' = [pc EXCEPT ![h] = "hook"]
            /\ UNCHANGED << appVars, worker_pc, resp >>
       ELSE LET r == app_setup(app_attrs, github_networks, meta)
            IN  /\ app_attrs' = r.attrs
                /\ github_networks' = r.networks
                /\ workers_started' = workers_started + r.started
                /\ networks_loaded' = (networks_loaded \/ r.loaded)
                /\ worker_pc' = IF r.started > 0 THEN "waiting" ELSE worker_pc
                /\ got_first_request' = ~r.raised
                /\ IF r.raised
                   THEN /\ resp' = [resp EXCEPT ![h] = InternalServerError]
                        /\ pc' = [pc EXCEPT ![h] = "failed"]
                   ELSE /\ pc' = [pc EXCEPT ![h] = "hook"]
                        /\ UNCHANGED resp
    /\ UNCHANGED << queue, nsent, cur, call, nstarted, last_failed,
                    notified, nreq, req, job >>

\* hook(): the origin check and the dispatch, ending in a response, in an
\* exception Flask answers with 500, or in app.worker.send(event, payload).
Hook(h) ==
    /\ pc[h] = "hook"
    /\ LET r == hook(req[h], github_networks)
       IN  IF r.kind = "send"
           THEN /\ ~QueueFull(queue)
                /\ queue' = queue_put(queue,
                              [event_type |-> r.event_type,
                               payload |-> r.payload, seq |-> nsent + 1])
                /\ nsent' = nsent + 1
                /\ job' = [job EXCEPT ![h] = nsent + 1]
                /\ pc' = [pc EXCEPT ![h] = "sent"]
                /\ UNCHANGED resp
           ELSE /\ resp' = [resp EXCEPT ![h] =
                              IF r.kind = "raise" THEN InternalServerError
                              ELSE r.response]
                /\ pc' = [pc EXCEPT ![h] = "done"]
                /\ UNCHANGED << queue, nsent, job >>
    /\ UNCHANGED << appVars, workerVars, nreq, req >>

\* return flask.jsonify(status='handled'), 202
Respond(h) ==
    /\ pc[h] = "sent"
    /\ resp' = [resp EXCEPT ![h] = jsonify(202, [status |-> "handled"])]
    /\ pc' = [pc EXCEPT ![h] = "done"]
    /\ UNCHANGED << appVars, queue, nsent, workerVars, nreq, req, job >>

\* Worker.run: self.queue.get() returns the next job.
WorkerGet ==
    /\ worker_pc = "waiting"
    /\ queue # <<>>
    /\ cur' = queue_get(queue).item
    /\ queue' = queue_get(queue).rest
    /\ nstarted' = nstarted + 1
    /\ worker_pc' = "handling"
    /\ UNCHANGED << appVars, nsent, call, last_failed, notified, requestVars >>

\* The except clause of Worker.run: log and wait for the next job, or the
\* thread ends if the exception is not caught.
Except(exc) ==
    /\ worker_pc' = IF RunCatches(exc) THEN "waiting" ELSE "stopped"
    /\ last_failed' = cur.seq
    /\ cur' = NoJob
    /\ call' = NoCall

\* Worker.run: self.handle(job) up to the post_message call.
WorkerHandle ==
    /\ worker_pc = "handling"
    /\ LET r == handle(cur.event_type, cur.payload)
       IN  IF r.kind = "post"
           THEN /\ call' = [channel |-> r.channel, text |-> r.text]
                /\ notified' = Append(notified, cur.seq)
                /\ worker_pc' = "sending"
                /\ UNCHANGED << cur, last_failed >>
           ELSE IF r.kind = "raise"
           THEN Except("KeyError") /\ UNCHANGED notified
           ELSE /\ worker_pc' = "waiting"
                /\ cur' = NoJob
                /\ UNCHANGED << call, last_failed, notified >>
    /\ UNCHANGED << appVars, queue, nsent, nstarted, requestVars >>

\* app.slack.chat.post_message returns: handle is done with the job.
PostMessageReturns ==
    /\ worker_pc = "sending"
    /\ worker_pc' = "waiting"
    /\ cur' = NoJob
    /\ call' = NoCall
    /\ UNCHANGED << appVars, queue, nsent, nstarted, last_failed, notified,
                    requestVars >>

\* app.slack.chat.post_message raises.
PostMessageRaises ==
    /\ worker_pc = "sending"
    /\ Except("SlackError")
    /\ UNCHANGED << appVars, queue, nsent, nstarted, notified, requestVars >>

Next ==
    \/ \E h \in Handlers, r \in Requests : Receive(h, r)
    \/ \E h \in Handlers, meta \in MetaResponses : AppSetup(h, meta)
    \/ \E h \in Handlers : Hook(h)
    \/ \E h \in Handlers : Respond(h)
    \/ WorkerGet
    \/ WorkerHandle
    \/ PostMessageReturns
    \/ PostMessageRaises

Spec == Init /\ [][Next]_vars

\* The worker thread is scheduled: a job that is ready is taken, a job taken
\* is handled, and a post_message call returns or raises.
WorkerFair ==
    /\ WF_vars(WorkerGet)
    /\ WF_vars(WorkerHandle)
    /\ WF_vars(PostMessageReturns \/ PostMessageRaises)

\* The fork requests hook() accepts: each puts a job on the queue, one that
\* handle can format or one that makes it raise.
AcceptedRequests ==
    { r \in Requests :
        /\ hook(r, <<IPNetwork(GoodCidr)>>).kind = "send"
        /\ hook(r, <<IPNetwork(GoodCidr)>>).event_type = "fork" }

\* The metadata answers app_setup completes with.
GoodMetaResponses ==
    { meta \in MetaResponses :
        ~app_setup({}, <<>>, meta).raised }

\* The system with a metadata endpoint that answers well, under accepted
\* fork requests only.
DeliveryNext ==
    \/ \E h \in Handlers, r \in AcceptedRequests : Receive(h, r)
    \/ \E h \in Handlers, meta \in GoodMetaResponses : AppSetup(h, meta)
    \/ \E h \in Handlers : Hook(h)
    \/ \E h \in Handlers : Respond(h)
    \/ WorkerGet
    \/ WorkerHandle
    \/ PostMessageReturns
    \/ PostMessageRaises

FairSpec == Init /\ [][DeliveryNext]_vars /\ WorkerFair

\* --------------------------------------------------------------- claims

\* ------------------------------------------------- the origin check alone

\* CIDRs the metadata endpoint may publish: one address, an aligned pair,
\* GoodCidr, a network given by an address inside it, and everything.
PublishedCidrs ==
    { <<0, AddrBits>>, <<2, AddrBits - 1>>, GoodCidr,
      <<Pow2(AddrBits) - 1, 1>>, <<1, 0>> }

RECURSIVE CidrLists(_)
CidrLists(n) ==
    IF n = 0
    THEN { <<>> }
    ELSE CidrLists(n - 1) \cup
         { Append(l, c) : l \in { m \in CidrLists(n - 1) : Len(m) = n - 1 },
                          c \in PublishedCidrs }

\* The state app_setup leaves when the metadata endpoint published `cidrs`.
OriginInit ==
    \E cidrs \in CidrLists(MaxNetworks) :
        LET r == app_setup({}, <<>>, [raised |-> FALSE,
                                      json |-> [hooks |-> cidrs]])
        IN  /\ got_first_request = ~r.raised
            /\ app_attrs = r.attrs
            /\ github_networks = r.networks
            /\ workers_started = r.started
            /\ networks_loaded = r.loaded
            /\ queue = <<>>
            /\ nsent = 0
            /\ worker_pc = "waiting"
            /\ cur = NoJob
            /\ call = NoCall
            /\ nstarted = 0
            /\ last_failed = 0
            /\ notified = <<>>
            /\ nreq = 0
            /\ pc = [h \in Handlers |-> "new"]
            /\ req = [h \in Handlers |-> NoRequest]
            /\ resp = [h \in Handlers |-> NoResponse]
            /\ job = [h \in Handlers |-> 0]

\* A ping from every address.
OriginRequests ==
    { Request(a, WithEvent("ping"), <<>>) : a \in 0 .. Pow2(AddrBits) - 1 }

OriginNext ==
    \/ \E r \in OriginRequests : Receive(1, r)
    \/ Hook(1)

OriginSpec == OriginInit /\ [][OriginNext]_vars

\* The handler that enqueued the job with sequence number n.
SenderOf(n) == { h \in Handlers : job[h] = n }

\* C1: the queue is FIFO: the k-th job the worker takes (and the k-th it
\* calls the notifier for) is the k-th job that was put, and the jobs still
\* queued wait in the order they were put.
C1_FifoDelivery ==
    /\ worker_pc \in {"handling", "sending"} => cur.seq = nstarted
    /\ \A i \in 1 .. Len(queue) : queue[i].seq = nstarted + i

\* The worker is calling the notifier for the first job while a later job
\* waits in the queue.
C1_Witness ==
    /\ worker_pc = "sending"
    /\ cur.seq = 1
    /\ Len(queue) = 1
    /\ queue[1].seq = 2

\* C2: the worker loop never ends: once started the worker is waiting for a
\* job or handling one, whatever the handling of earlier jobs raised, and
\* no job put on the queue is lost: each is still queued or was taken.
C2_FaultIsolation ==
    /\ worker_pc # "stopped"
    /\ workers_started > 0 => worker_pc \in {"waiting", "handling", "sending"}
    /\ nsent = nstarted + Len(queue)
    /\ last_failed <= nstarted

\* Handling of job 1 raised and the worker is calling the notifier for job 2.
C2_Witness ==
    /\ last_failed = 1
    /\ worker_pc = "sending"
    /\ cur.seq = 2

EventTypeOf(r) ==
    IF EventHeader \in DOMAIN r.headers THEN r.headers[EventHeader] ELSE ""

\* The address lies in one of the stored network ranges.
InStoredRange(addr) ==
    \E i \in DOMAIN github_networks :
        /\ NetFirst(github_networks[i]) <= addr
        /\ addr <= NetLast(github_networks[i])

\* hook() is leaving its dispatch for request h in this step.
HookStep(h) == pc[h] = "hook" /\ pc'[h] # "hook"

\* C4 (as claimed): a request hook() handles that carries no event type
\* (header absent or empty) is answered 403 "not a hook" and enqueues nothing.
C4_NoHeaderIsNotAHook ==
    [][\A h \in Handlers :
          (HookStep(h) /\ EventTypeOf(req[h]) = "") =>
              /\ pc'[h] = "done"
              /\ resp'[h] = [status |-> 403, body |-> [status |-> "not a hook"]]
              /\ queue' = queue /\ nsent' = nsent]_vars

\* C4 (amended): a request from an address in a stored range that carries
\* no event type is answered 403 "not a hook" and enqueues nothing.
C4_AuthorizedNoHeaderIsNotAHook ==
    [][\A h \in Handlers :
          (/\ HookStep(h)
           /\ InStoredRange(req[h].remote_addr)
           /\ EventTypeOf(req[h]) = "") =>
              /\ pc'[h] = "done"
              /\ resp'[h] = [status |-> 403, body |-> [status |-> "not a hook"]]
              /\ queue' = queue /\ nsent' = nsent]_vars

\* Two answered requests from a stored range, one without the header and
\* one with an empty header, both answered "not a hook".
C4_Witness ==
    \E h, k \in Handlers :
        /\ pc[h] = "done" /\ pc[k] = "done"
        /\ InStoredRange(req[h].remote_addr)
        /\ InStoredRange(req[k].remote_addr)
        /\ EventHeader \notin DOMAIN req[h].headers
        /\ EventHeader \in DOMAIN req[k].headers /\ EventTypeOf(req[k]) = ""
        /\ resp[h] = [status |-> 403, body |-> [status |-> "not a hook"]]
        /\ resp[k] = [status |-> 403, body |-> [status |-> "not a hook"]]
        /\ job[h] = 0 /\ job[k] = 0

\* C5: a request whose source address lies in none of the stored ranges is
\* answered 403 "you != GitHub" whatever its event type and payload, and
\* the queue is left unchanged.
C5_OriginRejection ==
    [][\A h \in Handlers :
          (HookStep(h) /\ ~InStoredRange(req[h].remote_addr)) =>
              /\ pc'[h] = "done"
              /\ resp'[h] = [status |-> 403, body |-> [status |-> "you != GitHub"]]
              /\ queue' = queue /\ nsent' = nsent]_vars

\* A well-formed watch event for a registered repository, sent from outside
\* the stored ranges, was answered "you != GitHub" and enqueued nothing.
C5_Witness ==
    \E h \in Handlers :
        /\ pc[h] = "done"
        /\ github_networks # <<>>
        /\ ~InStoredRange(req[h].remote_addr)
        /\ EventTypeOf(req[h]) = "watch"
        /\ resp[h] = [status |-> 403, body |-> [status |-> "you != GitHub"]]
        /\ job[h] = 0

\* The request carries a payload whose repository.full_name can be read.
NamesRepo(r) ==
    /\ "repository" \in DOMAIN r.json
    /\ "full_name" \in DOMAIN r.json.repository

\* A watch or fork request from a stored range that names a repository.
IsRepoEvent(r) ==
    /\ InStoredRange(r.remote_addr)
    /\ EventTypeOf(r) \in {"watch", "fork"}
    /\ NamesRepo(r)

\* C6: a watch or fork event, from an address in a stored range, for a
\* repository R that is no key of REPOS is answered 403 "repo not allowed"
\* with repo R, and enqueues nothing.
C6_UnauthorizedRepository ==
    [][\A h \in Handlers :
          (/\ HookStep(h)
           /\ IsRepoEvent(req[h])
           /\ req[h].json.repository.full_name \notin DOMAIN REPOS) =>
              /\ pc'[h] = "done"
              /\ resp'[h] =
                   [status |-> 403,
                    body |-> [status |-> "repo not allowed",
                              repo |-> req[h].json.repository.full_name]]
              /\ queue' = queue /\ nsent' = nsent]_vars

\* A watch and a fork event for the unregistered evil/repo were both
\* answered "repo not allowed" and nothing was ever enqueued.
C6_Witness ==
    \E h, k \in Handlers :
        /\ pc[h] = "done" /\ pc[k] = "done"
        /\ IsRepoEvent(req[h]) /\ EventTypeOf(req[h]) = "watch"
        /\ IsRepoEvent(req[k]) /\ EventTypeOf(req[k]) = "fork"
        /\ resp[h] = [status |-> 403,
                      body |-> [status |-> "repo not allowed",
                                repo |-> "evil/repo"]]
        /\ resp[k] = resp[h]
        /\ nsent = 0

\* C7: a request from an address in a stored range whose event type is
\* present (not empty) and is none of ping, watch, fork is answered 501
\* "unhandled event" with that event type, and the queue is left unchanged.
C7_UnsupportedEvent ==
    [][\A h \in Handlers :
          (/\ HookStep(h)
           /\ InStoredRange(req[h].remote_addr)
           /\ EventTypeOf(req[h]) \notin {"", "ping", "watch", "fork"}) =>
              /\ pc'[h] = "done"
              /\ resp'[h] =
                   [status |-> 501,
                    body |-> [status |-> "unhandled event",
                              event |-> EventTypeOf(req[h])]]
              /\ queue' = queue /\ nsent' = nsent]_vars

\* A push event from a stored range was answered 501 and enqueued nothing.
C7_Witness ==
    \E h \in Handlers :
        /\ pc[h] = "done"
        /\ InStoredRange(req[h].remote_addr)
        /\ EventTypeOf(req[h]) = "push"
        /\ resp[h] = [status |-> 501,
                      body |-> [status |-> "unhandled event", event |-> "push"]]
        /\ job[h] = 0

\* The count a job carries: stargazers_count for watch, forks for fork.
MetricOf(j) ==
    IF j.event_type = "watch"
    THEN j.payload.repository.stargazers_count
    ELSE j.payload.repository.forks

\* C8, hook(): a watch (fork) event from a stored range for a registered
\* repository appends exactly one job, of that kind and with that payload,
\* to the queue, and is then answered 202 "handled" without touching the queue.
C8_HookStep ==
    \A h \in Handlers :
        /\ (/\ HookStep(h)
            /\ IsRepoEvent(req[h])
            /\ req[h].json.repository.full_name \in DOMAIN REPOS) =>
               /\ pc'[h] = "sent"
               /\ queue' = Append(queue, [event_type |-> EventTypeOf(req[h]),
                                          payload |-> req[h].json,
                                          seq |-> nsent + 1])
               /\ nsent' = nsent + 1
        /\ (pc[h] = "sent" /\ pc'[h] # "sent") =>
               /\ pc'[h] = "done"
               /\ resp'[h] = [status |-> 202, body |-> [status |-> "handled"]]
               /\ queue' = queue /\ nsent' = nsent

\* C8, states: a 202 is produced only by a request that enqueued a job, the
\* jobs enqueued are one per accepting request, and the message the notifier
\* is called with ends in the decimal rendering of the payload's count.
C8_State ==
    /\ \A h \in Handlers : resp[h].status = 202 <=> (pc[h] = "done" /\ job[h] > 0)
    /\ nsent = Cardinality({ h \in Handlers : job[h] > 0 })
    /\ worker_pc = "sending" =>
           /\ call.text # <<>>
           /\ call.text[Len(call.text)] = ToString(MetricOf(cur))

\* C8: accepted events enqueue exactly one job and are answered 202; the
\* notifier gets the payload's stargazer (fork) count.
C8_AcceptedEnqueuesOneJob == [][C8_HookStep]_vars /\ []C8_State

\* A watch request was answered 202 and the worker is calling the notifier
\* for its job with the stargazer count 7.
C8_Witness ==
    \E h \in Handlers :
        /\ pc[h] = "done"
        /\ resp[h] = [status |-> 202, body |-> [status |-> "handled"]]
        /\ EventTypeOf(req[h]) = "watch"
        /\ worker_pc = "sending"
        /\ cur.seq = job[h]
        /\ call.text[Len(call.text)] = "7"

\* C9: a ping from an address in a stored range is answered 200 "pong" and
\* the queue is as long after the request as before it.
C9_Ping ==
    [][\A h \in Handlers :
          (/\ HookStep(h)
           /\ InStoredRange(req[h].remote_addr)
           /\ EventTypeOf(req[h]) = "ping") =>
              /\ pc'[h] = "done"
              /\ resp'[h] = [status |-> 200, body |-> [status |-> "pong"]]
              /\ Len(queue') = Len(queue)
              /\ queue' = queue /\ nsent' = nsent]_vars

\* A ping was answered "pong" while a job was waiting in the queue.
C9_Witness ==
    \E h \in Handlers :
        /\ pc[h] = "done"
        /\ EventTypeOf(req[h]) = "ping"
        /\ resp[h] = [status |-> 200, body |-> [status |-> "pong"]]
        /\ job[h] = 0
        /\ Len(queue) = 1

\* The job names a repository that is a key of the registry.
Registered(j) ==
    /\ "repository" \in DOMAIN j.payload
    /\ "full_name" \in DOMAIN j.payload.repository
    /\ j.payload.repository.full_name \in DOMAIN REPOS

\* C10: every job in the queue and the job the worker is handling name a
\* repository that is a key of REPOS, so handle's REPOS lookup succeeds.
C10_RegisteredOnlyJobs ==
    /\ \A i \in 1 .. Len(queue) : Registered(queue[i])
    /\ worker_pc \in {"handling", "sending"} => Registered(cur)

\* The worker handles a job for a registered repository after a request
\* for an unregistered one was turned away.
C10_Witness ==
    /\ worker_pc = "handling"
    /\ Registered(cur)
    /\ \E h \in Handlers :
          /\ pc[h] = "done"
          /\ resp[h] = [status |-> 403,
                        body |-> [status |-> "repo not allowed",
                                  repo |-> "evil/repo"]]

\* C11: enqueueing never blocks: in every state, also with the worker inside
\* a notifier call that does not return and with jobs queued, a handler in
\* hook() can take its step (app.worker.send included) and a handler that
\* has sent can return its 202.
C11_NonBlockingEnqueue ==
    \A h \in Handlers :
        /\ pc[h] = "hook" => ENABLED Hook(h)
        /\ pc[h] = "sent" => ENABLED Respond(h)

\* The worker is still inside the notifier call for job 1 while a later
\* request was accepted, enqueued job 2 behind it and got its 202.
C11_Witness ==
    /\ worker_pc = "sending"
    /\ cur.seq = 1
    /\ Len(queue) >= 1
    /\ \E h \in Handlers :
          /\ job[h] = 2
          /\ pc[h] = "done"
          /\ resp[h] = [status |-> 202, body |-> [status |-> "handled"]]

\* C12: delivery is at most once: every notifier call is for a job that was
\* enqueued, no job gets two calls, the calls are no more than the accepted
\* events, and a job once taken (failed or not) is never back in the queue.
C12_AtMostOnce ==
    /\ \A i \in 1 .. Len(notified) : notified[i] \in 1 .. nsent
    /\ \A i, k \in 1 .. Len(notified) : i # k => notified[i] # notified[k]
    /\ Len(notified) <= nsent
    /\ \A i \in 1 .. Len(queue) : queue[i].seq > nstarted
    /\ last_failed > 0 => cur.seq # last_failed

\* The notifier call for job 1 raised; the job was dropped and the worker is
\* calling the notifier for job 2: two calls for two jobs.
C12_Witness ==
    /\ notified = <<1, 2>>
    /\ last_failed = 1
    /\ worker_pc = "sending"
    /\ cur.seq = 2
    /\ queue = <<>>

\* The template handle uses for a job: the repository's own template for the
\* job's kind when it configures one, the default for that kind otherwise.
JobTemplate(j) ==
    LET repo == REPOS[j.payload.repository.full_name]
        own == IF j.event_type = "watch" THEN "STAR_FORMAT" ELSE "FORK_FORMAT"
    IN  IF own \in DOMAIN repo THEN repo[own]
        ELSE IF j.event_type = "watch" THEN STAR_FORMAT ELSE FORK_FORMAT

\* A job handle can format: a registered repository, every payload field it
\* reads present, and a template that names only the fields handle passes.
WellFormedJob(j) ==
    /\ Registered(j)
    /\ "sender" \in DOMAIN j.payload
    /\ {"login", "html_url"} \subseteq DOMAIN j.payload.sender
    /\ "html_url" \in DOMAIN j.payload.repository
    /\ IF j.event_type = "watch"
       THEN "stargazers_count" \in DOMAIN j.payload.repository
       ELSE "forks" \in DOMAIN j.payload.repository
    /\ \A i \in DOMAIN JobTemplate(j) :
          \/ "lit" \in DOMAIN JobTemplate(j)[i]
          \/ JobTemplate(j)[i].key \in
                {"user", "repo",
                 IF j.event_type = "watch" THEN "stars" ELSE "forks"}

\* C13: with the worker scheduled and every notifier call returning or
\* raising, the n-th job enqueued is eventually taken and handled to the end,
\* and for a well-formed job the notifier is eventually called with the
\* channel of the job's repository.
C13_EventualDelivery ==
    \A n \in 1 .. MaxRequests :
        /\ (nsent >= n) ~> (nstarted >= n /\ cur.seq # n)
        /\ (\E i \in 1 .. Len(queue) :
                queue[i].seq = n /\ WellFormedJob(queue[i]))
           ~> (/\ worker_pc = "sending"
               /\ cur.seq = n
               /\ call.channel = REPOS[cur.payload.repository.full_name].channel)

\* After job 1 failed, the worker calls the notifier for the fork job 2 of
\* acme/widgets: channel #releases, a message naming alice and 42 forks.
C13_Witness ==
    /\ last_failed = 1
    /\ worker_pc = "sending"
    /\ cur.seq = 2
    /\ cur.event_type = "fork"
    /\ WellFormedJob(cur)
    /\ call.channel = "#releases"
    /\ \E i \in DOMAIN call.text : call.text[i] = "alice"
    /\ \E i \in DOMAIN call.text : call.text[i] = "42"

\* C14 (as claimed): as long as the fetch of the network ranges has not
\* completed (the request failed, the answer had no 'hooks', or an entry did
\* not parse), no request is answered 200 or 202 and no job is enqueued.
C14_NoServiceWithoutAllowlist ==
    ~networks_loaded =>
        /\ \A h \in Handlers : resp[h].status \notin {200, 202}
        /\ nsent = 0

\* C15: at most one Worker is ever created and started, also when app_setup
\* fails part-way and runs again; at most one job is being handled (the
\* jobs taken before it are finished, the others still queued), and a
\* post_message call in progress is the call of that job.
C15_SingleWorker ==
    /\ workers_started <= 1
    /\ workers_started = 1 <=> "worker" \in app_attrs
    /\ workers_started = 0 <=> worker_pc = "unstarted"
    /\ Len(queue) = nsent - nstarted
    /\ worker_pc \in {"handling", "sending"} <=> cur # NoJob
    /\ cur # NoJob => cur.seq = nstarted
    /\ call # NoCall <=> worker_pc = "sending"

\* The first request's setup failed after the worker was started, the second
\* ran it again, and the one worker is in post_message for its job.
C15_Witness ==
    /\ pc[1] = "failed"
    /\ resp[1] = [status |-> 500, body |-> [error |-> "Internal Server Error"]]
    /\ got_first_request
    /\ workers_started = 1
    /\ worker_pc = "sending"
    /\ cur.seq = 1
    /\ job[2] = 1

\* C16: once app.github_networks exists it is never assigned again, by a
\* re-run of app_setup or by anything else, and a handler reads it in hook()
\* only after it exists, so no handler sees two allowlists.
C16_Step ==
    "github_networks" \in app_attrs =>
        /\ github_networks' = github_networks
        /\ "github_networks" \in app_attrs'

C16_State ==
    /\ "github_networks" \notin app_attrs => github_networks = <<>>
    /\ \A h \in Handlers :
           pc[h] \in {"hook", "sent"} => "github_networks" \in app_attrs

C16_AllowlistWrittenOnce == [][C16_Step]_vars /\ []C16_State

\* The first setup stored the ranges and failed; the re-run under the second
\* request left them as they were, and the second request was checked
\* against them.
C16_Witness ==
    /\ pc[1] = "failed"
    /\ got_first_request
    /\ "github_networks" \in app_attrs
    /\ github_networks = <<IPNetwork(GoodCidr)>>
    /\ ~networks_loaded
    /\ pc[2] = "done"
    /\ req[2].remote_addr = OutsideAddr
    /\ resp[2] = [status |-> 403, body |-> [status |-> "you != GitHub"]]

\* The addresses of the stored range n: those with the same leading
\* prefixlen bits as the range's address.
AddrsOf(n) ==
    { a \in 0 .. 2 ^ AddrBits - 1 :
        a \div 2 ^ (AddrBits - n.prefixlen) =
            n.ip \div 2 ^ (AddrBits - n.prefixlen) }

FirstOf(n) == CHOOSE a \in AddrsOf(n) : \A b \in AddrsOf(n) : a <= b
LastOf(n) == CHOOSE a \in AddrsOf(n) : \A b \in AddrsOf(n) : b <= a

OriginFailed(h) ==
    resp[h] = [status |-> 403, body |-> [status |-> "you != GitHub"]]

\* C17: for every address and every stored list of ranges, a request hook()
\* has answered passed the origin check iff its address lies in at least
\* one stored range; it passed when the address is the first or the last
\* one of a stored range, and failed when the list is empty.
C17_OriginCheck ==
    \A h \in Handlers :
        pc[h] = "done" =>
            /\ ~OriginFailed(h) <=>
                   \E i \in DOMAIN github_networks :
                       req[h].remote_addr \in AddrsOf(github_networks[i])
            /\ \A i \in DOMAIN github_networks :
                   req[h].remote_addr \in { FirstOf(github_networks[i]),
                                            LastOf(github_networks[i]) }
                       => ~OriginFailed(h)
            /\ github_networks = <<>> => OriginFailed(h)

\* Two ranges are stored; the address is the last one of the second range,
\* and above the first range; the ping is answered.
C17_Witness ==
    /\ Len(github_networks) = 2
    /\ pc[1] = "done"
    /\ req[1].remote_addr = LastOf(github_networks[2])
    /\ req[1].remote_addr # FirstOf(github_networks[2])
    /\ req[1].remote_addr \notin AddrsOf(github_networks[1])
    /\ resp[1] = [status |-> 200, body |-> [status |-> "pong"]]

\* What a template token stands for in a job: the literal, or the payload
\* field the job kind passes under that name.
TokenText(tok, j) ==
    IF "lit" \in DOMAIN tok THEN tok.lit
    ELSE IF tok.key = "user"
    THEN (IF tok.attr = "name" THEN j.payload.sender.login
          ELSE j.payload.sender.html_url)
    ELSE IF tok.key = "repo"
    THEN (IF tok.attr = "name" THEN j.payload.repository.full_name
          ELSE j.payload.repository.html_url)
    ELSE IF tok.key = "stars"
    THEN ToString(j.payload.repository.stargazers_count)
    ELSE ToString(j.payload.repository.forks)

\* C18: a post_message call the worker makes for a job for repository R
\* goes to R's configured channel, and its text is the rendering of R's own
\* template for the job's kind when R configures one, of the global default
\* template of that kind otherwise; the job is one that template can render
\* (so a template of the other kind, or the default in place of R's own,
\* is not what was used).
C18_TemplateAndChannel ==
    worker_pc = "sending" =>
        /\ cur.event_type \in {"watch", "fork"}
        /\ WellFormedJob(cur)
        /\ call.channel = REPOS[cur.payload.repository.full_name].channel
        /\ Len(call.text) = Len(JobTemplate(cur))
        /\ \A i \in DOMAIN JobTemplate(cur) :
               call.text[i] = TokenText(JobTemplate(cur)[i], cur)

\* The worker is sending a watch job for acme/gadgets, which configures its
\* own STAR_FORMAT, after a fork job for acme/widgets, which does not, was
\* sent with the default one.
C18_Witness ==
    /\ worker_pc = "sending"
    /\ cur.seq = 2
    /\ notified = <<1, 2>>
    /\ cur.event_type = "watch"
    /\ cur.payload.repository.full_name = "acme/gadgets"
    /\ call.channel = "#gadgets"
    /\ call.text = <<"alice", " likes ", "acme/gadgets", ": ", "7">>
    /\ \E h \in SenderOf(1) :
           /\ req[h].headers = ("X-GitHub-Event" :> "fork")
           /\ req[h].json.repository.full_name = "acme/widgets"

\* A step of the worker thread: it takes, finishes or fails a job.
WorkerStep ==
    \/ cur' # cur
    \/ call' # call
    \/ nstarted' # nstarted
    \/ last_failed' # last_failed

\* C19: the response to a request does not depend on the worker or the
\* queue: two requests hook() has answered that are equal (the allowlist and
\* the registry being the same for both) have the same status and body,
\* whatever the notifier did to the jobs in between (returned, raised, or
\* never came back); a worker step changes no response and no handler's
\* position, and a response given stays as it is.
C19_State ==
    \A h, k \in Handlers :
        pc[h] = "done" /\ pc[k] = "done" /\ req[h] = req[k]
            => resp[h] = resp[k]

C19_Step ==
    /\ WorkerStep => resp' = resp /\ pc' = pc
    /\ \A h \in Handlers : pc[h] = "done" => resp'[h] = resp[h]

C19_InboundIndependent == [][C19_Step]_vars /\ []C19_State

\* Two equal fork requests for acme/gadgets are both answered 202; the job
\* of the first has failed in the worker and the job of the second is still
\* queued.
C19_Witness ==
    /\ pc[1] = "done" /\ pc[2] = "done"
    /\ req[1] = req[2]
    /\ resp[1] = [status |-> 202, body |-> [status |-> "handled"]]
    /\ req[1].json.repository.full_name = "acme/gadgets"
    /\ resp[2] = resp[1]
    /\ last_failed = 1
    /\ worker_pc = "waiting"
    /\ Len(queue) = 1
    /\ queue[1].seq = 2

\* C20: a watch or fork request from an address in a stored range whose
\* payload has no repository.full_name fails in hook() before
\* app.worker.send: it is answered 500, nothing is put on the queue, the
\* worker's state and the application's attributes are as before, so that
\* the requests after it are handled as usual.
C20_Step ==
    \A h \in Handlers :
        (/\ HookStep(h)
         /\ InStoredRange(req[h].remote_addr)
         /\ EventTypeOf(req[h]) \in {"watch", "fork"}
         /\ ~NamesRepo(req[h]))
        => /\ pc'[h] = "done"
           /\ resp'[h] = [status |-> 500,
                          body |-> [error |-> "Internal Server Error"]]
           /\ job'[h] = 0
           /\ queue' = queue
           /\ nsent' = nsent
           /\ UNCHANGED workerVars
           /\ UNCHANGED appVars

C20_MalformedPayload == [][C20_Step]_vars

\* The first request, a watch without repository.full_name, was answered
\* 500; the second, a well-formed one, was accepted, and its job, the only
\* one ever queued, is with the notifier.
C20_Witness ==
    /\ pc[1] = "done"
    /\ EventTypeOf(req[1]) = "watch"
    /\ ~NamesRepo(req[1])
    /\ resp[1].status = 500
    /\ job[1] = 0
    /\ pc[2] = "done"
    /\ resp[2] = [status |-> 202, body |-> [status |-> "handled"]]
    /\ job[2] = 1
    /\ nsent = 1
    /\ worker_pc = "sending"
    /\ cur.seq = 1

====
